---------------------------- MODULE Spec2Model ----------------------------
(***************************************************************************)
(* Gerchberg-Saxton phaseless retrieval (src/ipynb/Gerchberg-Saxton.ipynb). *)
(*                                                                         *)
(* Numbers are exact rationals <<numerator, denominator>> in lowest terms   *)
(* with a positive denominator, so floating-point rounding is not part of   *)
(* the model.  np.linalg.norm is carried as its square (NormSq): the norms  *)
(* are only compared, min-ed and tested for zero, and squaring is monotone  *)
(* on the non-negative reals.                                               *)
(***************************************************************************)
EXTENDS Integers, Sequences, FiniteSets, TLC

\* Python's None, as the value of the optional integer arguments seed and
\* frame_dimension (which are non-negative when given).
None == -1

-----------------------------------------------------------------------------
(* Bounds of the model *)

\* num_iter ranges over 0..MaxIter.
MaxIter == 3
\* rng.random() yields the values k/RngRes, k in 0..RngRes-1, of [0, 1).
RngRes == 4

-----------------------------------------------------------------------------
(* Exact rational arithmetic.  The arithmetic is written as functions, so   *)
(* that every operand is a value when it is used.                           *)

\* <<numerator, denominator>>
Rational == Int \X Int

IAbs[k \in Int] == IF k < 0 THEN -k ELSE k

Gcd[p \in Nat, q \in Nat] == IF q = 0 THEN p ELSE Gcd[q, p % q]

Rat[p \in Int, q \in Int] ==
    LET g == Gcd[IAbs[p], IAbs[q]]
        s == IF q < 0 THEN -1 ELSE 1
    IN  <<(s * p) \div g, (s * q) \div g>>

Zero == <<0, 1>>
One == <<1, 1>>
\* Sums and comparisons go through the least common denominator, which
\* keeps every intermediate integer small.
Lcd[u \in Rational, v \in Rational] == (u[2] \div Gcd[u[2], v[2]]) * v[2]
RAdd[u \in Rational, v \in Rational] ==
    LET l == Lcd[u, v]
    IN  Rat[u[1] * (l \div u[2]) + v[1] * (l \div v[2]), l]
RNeg[u \in Rational] == <<-u[1], u[2]>>
RSub[u \in Rational, v \in Rational] == RAdd[u, RNeg[v]]
RMul[u \in Rational, v \in Rational] ==
    LET g == Gcd[IAbs[u[1]], v[2]]
        h == Gcd[IAbs[v[1]], u[2]]
    IN  <<(u[1] \div g) * (v[1] \div h), (u[2] \div h) * (v[2] \div g)>>
RAbs[u \in Rational] == <<IAbs[u[1]], u[2]>>
RLt[u \in Rational, v \in Rational] ==
    LET l == Lcd[u, v]
    IN  u[1] * (l \div u[2]) < v[1] * (l \div v[2])
RMin[u \in Rational, v \in Rational] == IF RLt[v, u] THEN v ELSE u

-----------------------------------------------------------------------------
(* Real vectors (sequences of rationals) and matrices (sequences of rows). *)
(* Every vector is built as a tuple (f \o <<>>), so that it is computed     *)
(* once rather than on every access.                                        *)

Vector == Seq(Rational)
Matrix == Seq(Vector)
\* Complex vectors: sequences of pairs <<re, im>> of rationals.
ComplexVector == Seq(Rational \X Rational)

DotTo[u \in Vector, v \in Vector, k \in Nat] ==
    IF k = 0 THEN Zero ELSE RAdd[RMul[u[k], v[k]], DotTo[u, v, k - 1]]

Rows(M) == Len(M)
Cols(M) == IF M = <<>> THEN 0 ELSE Len(M[1])
Dot[u \in Vector, v \in Vector] == DotTo[u, v, Len(u)]
\* F.dot(x), F @ x
MatVec[M \in Matrix, x \in Vector] ==
    [k \in 1..Rows(M) |-> Dot[M[k], x]] \o <<>>
\* F.T
Transpose[M \in Matrix] ==
    [c \in 1..Cols(M) |-> [k \in 1..Rows(M) |-> M[k][c]] \o <<>>] \o <<>>
VNeg[x \in Vector] == [k \in 1..Len(x) |-> RNeg[x[k]]] \o <<>>
VAdd[x \in Vector, y \in Vector] ==
    [k \in 1..Len(x) |-> RAdd[x[k], y[k]]] \o <<>>
VSub[x \in Vector, y \in Vector] ==
    [k \in 1..Len(x) |-> RSub[x[k], y[k]]] \o <<>>
VAbs[x \in Vector] == [k \in 1..Len(x) |-> RAbs[x[k]]] \o <<>>
\* np.linalg.norm(x) ** 2
NormSq[x \in Vector] == Dot[x, x]
Identity(k) ==
    [a \in 1..k |-> [c \in 1..k |-> IF a = c THEN One ELSE Zero] \o <<>>]
        \o <<>>
\* M scaled by 1/d, M an integer matrix
Scaled(M, d) ==
    [a \in 1..Len(M) |-> [c \in 1..Len(M[a]) |-> Rat[M[a][c], d]] \o <<>>]
        \o <<>>

-----------------------------------------------------------------------------
(* Complex vectors: sequences of pairs <<re, im>> of rationals *)

CRe[z \in ComplexVector] == [k \in 1..Len(z) |-> z[k][1]] \o <<>>
CIm[z \in ComplexVector] == [k \in 1..Len(z) |-> z[k][2]] \o <<>>
CVec[re \in Vector, im \in Vector] ==
    [k \in 1..Len(re) |-> <<re[k], im[k]>>] \o <<>>
CNeg[z \in ComplexVector] ==
    [k \in 1..Len(z) |-> <<RNeg[z[k][1]], RNeg[z[k][2]]>>] \o <<>>
\* real matrix times complex vector
CMatVec[M \in Matrix, z \in ComplexVector] ==
    CVec[MatVec[M, CRe[z]], MatVec[M, CIm[z]]]
\* np.abs of a complex vector.  Every complex value the program forms is
\* b[k] * exp(1j * 0) or b[k] * exp(1j * pi) or a real combination of such
\* values, so in exact arithmetic its imaginary part is 0 and its modulus
\* is |re|.
CAbs[z \in ComplexVector] == [k \in 1..Len(z) |-> RAbs[z[k][1]]] \o <<>>

-----------------------------------------------------------------------------
(* np.random.default_rng and Generator.random (numpy, modelled by contract: *)
(* the stream is a function of the seed; without a seed it is seeded from    *)
(* fresh operating-system entropy)                                           *)

RECURSIVE Pow(_, _)
Pow(b, e) == IF e = 0 THEN 1 ELSE b * Pow(b, e - 1)

\* The input dimensions n the model runs with.
Dims == {1, 2}
\* Draws of one stream that are independent before the stream repeats: as
\* many as the longest vector sampled.
StreamDigits == CHOOSE d \in Dims : \A e \in Dims : e <= d
\* The entropy the operating system may supply to an unseeded generator.
Entropy == 0..(Pow(RngRes, StreamDigits) - 1)
\* SeedSequence: mixes the seed into the generator's initial state.
SeedSequence(seed) == (seed \div 1000) + (seed % 1000)
\* default_rng with the seed ignored: always seeded from fresh entropy.
default_rng_unseeded(seed, entropy) == entropy
\* np.random.default_rng(seed)
default_rng(seed, entropy) ==
    IF seed = None THEN entropy ELSE SeedSequence(seed)
\* The pos-th draw (pos = 1, 2, ...) of generator rng, a value of [0, 1).
Draw(rng, pos) ==
    Rat[(rng \div Pow(RngRes, (pos - 1) % StreamDigits)) % RngRes, RngRes]
\* rng.random(n)
RngRandom(rng, n) == [k \in 1..n |-> Draw(rng, k)] \o <<>>
\* rng.random((m, m)), filled row by row
RngRandomMat(rng, m) ==
    [a \in 1..m |-> [c \in 1..m |-> Draw(rng, (a - 1) * m + c)] \o <<>>]
        \o <<>>

-----------------------------------------------------------------------------
(* randunif *)

randunif(n, a, b, seed, entropy) ==
    LET rng == default_rng(seed, entropy)
        u == RngRandom(rng, n)
    IN  [k \in 1..n |-> RAdd[RMul[RSub[b, a], u[k]], a]] \o <<>>

-----------------------------------------------------------------------------
(* random_frame *)

\* Python's int() of a rational: truncation toward zero.
PyInt(u) == IF u[1] >= 0 THEN u[1] \div u[2] ELSE -((-u[1]) \div u[2])

\* Python's round() of a rational: to the nearest integer, halves to even.
PyRound(u) ==
    LET fl == u[1] \div u[2]
        twice == 2 * (u[1] - fl * u[2])
    IN  IF twice < u[2] THEN fl
        ELSE IF twice > u[2] THEN fl + 1
        ELSE IF fl % 2 = 0 THEN fl ELSE fl + 1

\* FrameDimension with round() for int().
FrameDimensionRound(input_dimension, redundancy, frame_dimension) ==
    IF frame_dimension = None
      THEN PyRound(RMul[<<input_dimension, 1>>, redundancy])
      ELSE frame_dimension
\* The frame dimension m random_frame works with.
FrameDimension(input_dimension, redundancy, frame_dimension) ==
    IF frame_dimension = None
      THEN PyInt(RMul[<<input_dimension, 1>>, redundancy])
      ELSE frame_dimension

\* Orthogonal m-by-m matrices with rational entries.
Orthogonals(m) ==
    CASE m = 1 -> << Scaled(<< <<1>> >>, 1), Scaled(<< <<-1>> >>, 1) >>
      [] m = 2 -> << Scaled(<< <<3, 4>>, <<4, -3>> >>, 5),
                     Scaled(<< <<1, 0>>, <<0, 1>> >>, 1) >>
      [] m = 3 -> << Scaled(<< <<1, 2, 2>>, <<2, 1, -2>>, <<2, -2, 1>> >>, 3),
                     Scaled(<< <<3, 4, 0>>, <<4, -3, 0>>, <<0, 0, 5>> >>, 5) >>
      [] m = 4 -> << Scaled(<< <<1, 1, 1, 1>>, <<1, -1, 1, -1>>,
                               <<1, 1, -1, -1>>, <<1, -1, -1, 1>> >>, 2),
                     Scaled(<< <<1, 2, 2, 4>>, <<2, -1, 4, -2>>,
                               <<2, -4, -1, 2>>, <<4, 2, -2, -1>> >>, 5) >>
      [] OTHER -> << Identity(m) >>

\* np.linalg.qr(rand_mat)[0] (LAPACK, modelled by contract): an orthogonal
\* m-by-m matrix that is a function of rand_mat.
Qr(rand_mat) ==
    LET m == Rows(rand_mat)
        all == Orthogonals(m)
        key == rand_mat[1][1]
    IN  all[(((key[1] * RngRes) \div key[2]) % Len(all)) + 1]

\* Q[:, :n]
FirstColumns(Q, n) ==
    [a \in 1..Rows(Q) |->
        [c \in 1..(IF n < Cols(Q) THEN n ELSE Cols(Q)) |-> Q[a][c]] \o <<>>]
        \o <<>>

random_frame(input_dimension, redundancy, frame_dimension, seed, entropy) ==
    LET n == input_dimension
        m == FrameDimension(input_dimension, redundancy, frame_dimension)
        rng == default_rng(seed, entropy)
        rand_mat == RngRandomMat(rng, m)
        Q == Qr(rand_mat)
    IN  FirstColumns(Q, n)

-----------------------------------------------------------------------------
(* gs_phaseless: one pass of the loop body *)

\* Angle of the modulus, np.angle(np.abs(X0)): always 0.
AngleOfModulus(v) == "0"
\* np.angle of a real number: 0 for v >= 0, pi for v < 0.
Angle(v) == IF RLt[v, Zero] THEN "pi" ELSE "0"
\* Exp1j of half the angle, np.exp(1j * theta / 2): 1 and 1j.
Exp1jHalf(theta) == IF theta = "pi" THEN <<Zero, One>> ELSE <<One, Zero>>
\* np.exp(1j * theta) for theta in {0, pi}
Exp1j(theta) == IF theta = "pi" THEN <<RNeg[One], Zero>> ELSE <<One, Zero>>

\* numpy broadcasting of two one-dimensional shapes.
BroadcastOk(p, q) == p = q \/ p = 1 \/ q = 1
BroadcastLen(p, q) == IF p = 1 THEN q ELSE p
\* b * E for a real vector b and a complex vector E, broadcast.
BMul[b \in Vector, E \in ComplexVector] ==
    [k \in 1..BroadcastLen(Len(b), Len(E)) |->
        LET bk == IF Len(b) = 1 THEN b[1] ELSE b[k]
            Ek == IF Len(E) = 1 THEN E[1] ELSE E[k]
        IN  <<RMul[bk, Ek[1]], RMul[bk, Ek[2]]>>] \o <<>>
\* u - v for real vectors, broadcast.
BSub[u \in Vector, v \in Vector] ==
    [k \in 1..BroadcastLen(Len(u), Len(v)) |->
        RSub[IF Len(u) = 1 THEN u[1] ELSE u[k],
             IF Len(v) = 1 THEN v[1] ELSE v[k]]] \o <<>>

\* gs_err without np.abs: the signed measurements against the magnitudes.
gs_err_signed(F, magnitude, z) ==
    NormSq[BSub[CRe[CMatVec[F, z]], magnitude]]
\* err = lambda z : np.linalg.norm(np.abs(F.dot(z)) - magnitude), squared
gs_err(F, magnitude, z) == NormSq[BSub[CAbs[CMatVec[F, z]], magnitude]]

\* X0 = F @ x0
Analysis(F, x0) == MatVec[F, x0]
\* MagnitudeConstraint with the estimated phase dropped: Y0 = b.
MagnitudeConstraintNoPhase(b, X0) ==
    BMul[b, [k \in 1..Len(X0) |-> Exp1j("0")] \o <<>>]
\* Y0 = b * np.exp(1j * np.angle(X0))
MagnitudeConstraint(b, X0) ==
    BMul[b, [k \in 1..Len(X0) |-> Exp1j(Angle(X0[k]))] \o <<>>]
\* y0 = F.T @ Y0
Synthesis(F, Y0) == CMatVec[Transpose[F], Y0]
\* SelectSign without the comparison: always y0.
SelectSignKeep(F, magnitude, y0) == y0
\* SelectSign with <= for <: y0 on a tie.
SelectSignLe(F, magnitude, y0) ==
    IF RLt[gs_err(F, magnitude, CNeg[y0]), gs_err(F, magnitude, y0)]
      THEN CNeg[y0] ELSE y0
\* y0 if err(y0) < err(-y0) else -y0
SelectSign(F, magnitude, y0) ==
    IF RLt[gs_err(F, magnitude, y0), gs_err(F, magnitude, CNeg[y0])]
      THEN y0 ELSE CNeg[y0]
\* Real taking the imaginary part: np.imag.
Imag(z) == CIm[z]
\* np.real
Real(z) == CRe[z]

\* Whether one pass of the loop body raises (a numpy shape error).
StepRaises(F, b, magnitude) ==
    \/ ~BroadcastOk(Len(b), Rows(F))
    \/ BroadcastLen(Len(b), Rows(F)) # Rows(F)
    \/ ~BroadcastOk(Rows(F), Len(magnitude))

-----------------------------------------------------------------------------
(* State *)

VARIABLES
    pc,         \* position of the main routine
    n,          \* main routine: dimension of the input space
    r,          \* main routine: frame redundancy
    m,          \* main routine: frame dimension, int(r*n)
    x,          \* main routine: the vector to reconstruct
    F,          \* main routine: the frame
    magnitude,  \* main routine: the magnitude measurements
    x0,         \* main routine: the retrieved vector
    err_pos,    \* main routine: np.linalg.norm(x-x0), squared
    err_neg,    \* main routine: np.linalg.norm(x+x0), squared
    err,        \* main routine: the approximation error, squared
    call,       \* the arguments of the latest random_frame call
    inv,        \* the invocations of gs_phaseless: arguments and locals
    truth,      \* paired runs: the signal each invocation's magnitudes are of
    calls       \* an earlier and a later call of randunif or random_frame

vars == <<pc, n, r, m, x, F, magnitude, x0, err_pos, err_neg, err, call, inv,
          truth, calls>>

\* At most two invocations of gs_phaseless are followed.
Inv == {1, 2}

\* A vector or matrix variable not assigned yet.
Unset == <<>>

\* An invocation that has not been called.
Idle ==
    [pc |-> "idle", magnitude |-> Unset, frame |-> Unset, num_iter |-> 0,
     seed |-> None, b |-> Unset, F |-> Unset, n |-> 0, x0 |-> Unset,
     i |-> 0, X0 |-> Unset, Y0 |-> Unset, y0 |-> Unset, guess |-> Unset,
     ret |-> Unset]

-----------------------------------------------------------------------------
(* gs_phaseless *)

\* Entry: the statements before the loop.
GsEnter(magnitude_, frame_, num_iter_, seed_, entropy) ==
    LET n_ == Cols(frame_)
        x0_ == randunif(n_, RNeg[One], One, seed_, entropy)
    IN  [Idle EXCEPT !.pc = "loop", !.magnitude = magnitude_,
                     !.frame = frame_, !.num_iter = num_iter_,
                     !.seed = seed_, !.b = magnitude_, !.F = frame_,
                     !.n = n_, !.x0 = x0_, !.guess = x0_]

\* LoopContinues stopping one pass early: range(num_iter - 1).
LoopContinuesEarly(c) == c.i + 1 < c.num_iter
\* for i in range(num_iter)
LoopContinues(c) == c.i < c.num_iter

\* GsIterate with one iterate x0 for all invocations: a module-level x0.
GsIterateShared(k) ==
    /\ inv[k].pc = "loop"
    /\ LoopContinues(inv[k])
    /\ \E c \in {inv[k]} :
       \E X0_ \in {Analysis(c.F, c.x0)} :
       \E Y0_ \in {MagnitudeConstraint(c.b, X0_)} :
       \E y0_ \in {Synthesis(c.F, Y0_)} :
       \E x0_ \in {Real(SelectSign(c.F, c.magnitude, y0_))} :
          inv' = [j \in Inv |->
                    IF j = k
                      THEN [c EXCEPT !.X0 = X0_, !.Y0 = Y0_, !.y0 = y0_,
                                     !.x0 = x0_, !.i = c.i + 1]
                      ELSE [inv[j] EXCEPT !.x0 = x0_]] \o <<>>
    /\ UNCHANGED <<pc, n, r, m, x, F, magnitude, x0, err_pos, err_neg, err,
                   call>>
    /\ UNCHANGED <<truth, calls>>
\* GsIterate with the magnitude constraint applied in place, b *= ...: b is
\* np.asarray(magnitude), the caller's array itself.
GsIterateInPlace(k) ==
    /\ inv[k].pc = "loop"
    /\ LoopContinues(inv[k])
    /\ \E c \in {inv[k]} :
       \E X0_ \in {Analysis(c.F, c.x0)} :
       \E Y0_ \in {MagnitudeConstraint(c.b, X0_)} :
       \E y0_ \in {Synthesis(c.F, Y0_)} :
       \E x0_ \in {Real(SelectSign(c.F, c.magnitude, y0_))} :
          /\ inv' = [inv EXCEPT ![k].X0 = X0_, ![k].Y0 = Y0_,
                                ![k].y0 = y0_, ![k].x0 = x0_,
                                ![k].i = c.i + 1, ![k].b = CRe[Y0_],
                                ![k].magnitude = CRe[Y0_]]
          /\ magnitude' = CRe[Y0_]
    /\ UNCHANGED <<pc, n, r, m, x, F, x0, err_pos, err_neg, err, call>>
    /\ UNCHANGED <<truth, calls>>
\* One pass of the loop body of invocation k.  A numpy shape error leaves
\* the locals assigned before it and ends the invocation.
GsIterate(k) ==
    /\ inv[k].pc = "loop"
    /\ LoopContinues(inv[k])
    /\ \E c \in {inv[k]} :
       \E X0_ \in {Analysis(c.F, c.x0)} :
          IF ~BroadcastOk(Len(c.b), Rows(c.F))
            THEN inv' = [inv EXCEPT ![k].pc = "raised", ![k].X0 = X0_]
          ELSE \E Y0_ \in {MagnitudeConstraint(c.b, X0_)} :
             IF StepRaises(c.F, c.b, c.magnitude)
               THEN inv' = [inv EXCEPT ![k].pc = "raised", ![k].X0 = X0_,
                                       ![k].Y0 = Y0_]
             ELSE \E y0_ \in {Synthesis(c.F, Y0_)} :
                  \E x0_ \in {Real(SelectSign(c.F, c.magnitude, y0_))} :
                     inv' = [inv EXCEPT ![k].X0 = X0_, ![k].Y0 = Y0_,
                                        ![k].y0 = y0_, ![k].x0 = x0_,
                                        ![k].i = c.i + 1]
    /\ UNCHANGED <<pc, n, r, m, x, F, magnitude, x0, err_pos, err_neg, err,
                   call>>
    /\ UNCHANGED <<truth, calls>>

\* return x0
GsReturn(k) ==
    /\ inv[k].pc = "loop"
    /\ ~LoopContinues(inv[k])
    /\ inv' = [inv EXCEPT ![k].pc = "returned", ![k].ret = inv[k].x0]
    /\ UNCHANGED <<pc, n, r, m, x, F, magnitude, x0, err_pos, err_neg, err,
                   call>>
    /\ UNCHANGED <<truth, calls>>

-----------------------------------------------------------------------------
(* Main routine.  Its literal parameters (n = 21, r = n/2 + 5, the three     *)
(* seeds, the default num_iter) are drawn from the parameter domains of the  *)
(* functions it calls.                                                       *)

\* Explicit seeds: those of the main routine.
Seeds == {1231, 1121, 4321}
\* Redundancies r.
Redundancies == {<<1, 2>>, <<1, 1>>, <<3, 2>>, <<2, 1>>}
\* Explicit frame dimensions; one is passed with the default redundancy=2,
\* which random_frame then ignores.
FrameDims == {1, 3}
DefaultRedundancy == <<2, 1>>
\* num_iter
NumIters == 0..MaxIter

\* n = ...; r = ...; m = int(r*n)
ChooseDimensions ==
    /\ pc = "start"
    /\ \E n_ \in Dims, r_ \in Redundancies :
          /\ n' = n_
          /\ r' = r_
          /\ m' = PyInt(RMul[r_, <<n_, 1>>])
    /\ pc' = "signal"
    /\ UNCHANGED <<x, F, magnitude, x0, err_pos, err_neg, err, call, inv>>
    /\ UNCHANGED <<truth, calls>>

\* x = randunif(n, -1, 1, seed=...)
SampleSignal ==
    /\ pc = "signal"
    /\ \E seed \in Seeds \cup {None}, entropy \in Entropy :
          x' = randunif(n, RNeg[One], One, seed, entropy)
    /\ pc' = "frame"
    /\ UNCHANGED <<n, r, m, F, magnitude, x0, err_pos, err_neg, err, call, inv>>
    /\ UNCHANGED <<truth, calls>>

\* F = random_frame(n, r, seed=...), or with an explicit frame_dimension
GenerateFrame ==
    /\ pc = "frame"
    /\ \E fd \in FrameDims \cup {None}, seed \in Seeds \cup {None},
          entropy \in Entropy :
          /\ fd # None => r = DefaultRedundancy
          /\ FrameDimension(n, r, fd) >= 1
          /\ F' = random_frame(n, r, fd, seed, entropy)
          /\ call' = [input_dimension |-> n, redundancy |-> r,
                      frame_dimension |-> fd]
    /\ pc' = "measure"
    /\ UNCHANGED <<n, r, m, x, magnitude, x0, err_pos, err_neg, err, inv>>
    /\ UNCHANGED <<truth, calls>>

\* Measured without np.abs: the signed measurements F.dot(x).
MeasuredSigned(F_, x_) == MatVec[F_, x_]
\* np.abs(F.dot(x)): the magnitude measurements of x_ with respect to F_
Measured(F_, x_) == VAbs[MatVec[F_, x_]]

\* magnitude = np.abs(F.dot(x)); F.dot(x) raises when the shapes differ
Measure ==
    /\ pc = "measure"
    /\ IF Cols(F) # Len(x)
         THEN pc' = "raised" /\ UNCHANGED magnitude
         ELSE pc' = "retrieve" /\ magnitude' = Measured(F, x)
    /\ UNCHANGED <<n, r, m, x, F, x0, err_pos, err_neg, err, call, inv>>
    /\ UNCHANGED <<truth, calls>>

\* x0 = gs_phaseless(magnitude, F, seed=...): the call
Retrieve ==
    /\ pc = "retrieve"
    /\ \E num_iter \in NumIters, seed \in Seeds \cup {None},
          entropy \in Entropy :
          inv' = [inv EXCEPT ![1] = GsEnter(magnitude, F, num_iter, seed,
                                            entropy)]
    /\ pc' = "retrieving"
    /\ UNCHANGED <<n, r, m, x, F, magnitude, x0, err_pos, err_neg, err, call>>
    /\ UNCHANGED <<truth, calls>>

\* err_pos = np.linalg.norm(x-x0), squared
ErrPos(x_, x0_) == NormSq[VSub[x_, x0_]]
\* err_neg = np.linalg.norm(x+x0), squared
ErrNeg(x_, x0_) == NormSq[VAdd[x_, x0_]]
\* FixSign with the sign never fixed.
FixSignSkipped(x0_, err_pos_, err_neg_) == x0_
\* x0 = -x0 if err_neg < err_pos else x0
FixSign(x0_, err_pos_, err_neg_) ==
    IF RLt[err_neg_, err_pos_] THEN VNeg[x0_] ELSE x0_
\* MinErr with np.max for np.min.
MinErrMax(err_pos_, err_neg_) ==
    IF RLt[err_pos_, err_neg_] THEN err_neg_ ELSE err_pos_
\* err = np.min([err_pos, err_neg])
MinErr(err_pos_, err_neg_) == RMin[err_pos_, err_neg_]
\* The result evaluator on ground truth x_ and estimate x0_.
Corrected(x_, x0_) == FixSign(x0_, ErrPos(x_, x0_), ErrNeg(x_, x0_))
Reported(x_, x0_) == MinErr(ErrPos(x_, x0_), ErrNeg(x_, x0_))

\* x0 = gs_phaseless(...): the assignment; then the result evaluation
Evaluate ==
    /\ pc = "retrieving"
    /\ inv[1].pc = "returned"
    /\ err_pos' = ErrPos(x, inv[1].ret)
    /\ err_neg' = ErrNeg(x, inv[1].ret)
    /\ x0' = Corrected(x, inv[1].ret)
    /\ err' = Reported(x, inv[1].ret)
    /\ pc' = "done"
    /\ UNCHANGED <<n, r, m, x, F, magnitude, call, inv>>
    /\ UNCHANGED <<truth, calls>>

NoCall == [input_dimension |-> 0, redundancy |-> Zero, frame_dimension |-> None]

Init ==
    /\ pc = "start"
    /\ n = 0
    /\ r = Zero
    /\ m = 0
    /\ x = Unset
    /\ F = Unset
    /\ magnitude = Unset
    /\ x0 = Unset
    /\ err_pos = Zero
    /\ err_neg = Zero
    /\ err = Zero
    /\ call = NoCall
    /\ inv = [k \in Inv |-> Idle]
    /\ truth = [k \in Inv |-> Unset]
    /\ calls = <<>>

Next ==
    \/ ChooseDimensions
    \/ SampleSignal
    \/ GenerateFrame
    \/ Measure
    \/ Retrieve
    \/ GsIterate(1)
    \/ GsReturn(1)
    \/ Evaluate

Spec == Init /\ [][Next]_vars

-----------------------------------------------------------------------------
(* gs_phaseless called directly, on any frame random_frame returns and any   *)
(* magnitude vector of the frame's length.                                   *)

\* The frames random_frame returns.
ApiFrames ==
    {random_frame(n_, call_[1], call_[2], None, e) :
        n_ \in Dims, e \in Entropy,
        call_ \in {c \in (Redundancies \X {None}) \cup
                         ({DefaultRedundancy} \X FrameDims) :
                      \A d \in Dims : FrameDimension(d, c[1], c[2]) >= 1}}

\* The vectors randunif(n, -1, 1) returns.
Signals(n_) == {randunif(n_, RNeg[One], One, None, e) : e \in Entropy}

\* Entries of the magnitude vectors that are not measured from a signal.
MagGrid == {Zero, One}

\* Magnitude vectors of length k: the measurements of the signals, and the
\* vectors over MagGrid.
ApiMagnitudes(frame) ==
    {Measured(frame, x_) : x_ \in Signals(Cols(frame))}
        \cup {f \o <<>> : f \in [1..Rows(frame) -> MagGrid]}

ApiInit ==
    /\ pc = "api"
    /\ n = 0
    /\ r = Zero
    /\ m = 0
    /\ x = Unset
    /\ F = Unset
    /\ magnitude = Unset
    /\ x0 = Unset
    /\ err_pos = Zero
    /\ err_neg = Zero
    /\ err = Zero
    /\ call = NoCall
    /\ inv = [k \in Inv |-> Idle]
    /\ truth = [k \in Inv |-> Unset]
    /\ calls = <<>>

\* gs_phaseless(magnitude, frame, num_iter, seed): the call
ApiCall ==
    /\ pc = "api"
    /\ inv[1].pc = "idle"
    /\ \E frame \in ApiFrames, num_iter \in NumIters,
          seed \in Seeds \cup {None}, entropy \in Entropy :
          \E magnitude_ \in ApiMagnitudes(frame) :
             inv' = [inv EXCEPT ![1] = GsEnter(magnitude_, frame, num_iter,
                                               seed, entropy)]
    /\ UNCHANGED <<pc, n, r, m, x, F, magnitude, x0, err_pos, err_neg, err,
                   call>>
    /\ UNCHANGED <<truth, calls>>

ApiNext ==
    \/ ApiCall
    \/ GsIterate(1)
    \/ GsReturn(1)

SpecApi == ApiInit /\ [][ApiNext]_vars

-----------------------------------------------------------------------------
(* One invocation of gs_phaseless from the entry of its loop on: the call   *)
(* has been made, on a frame of the default redundancy.                     *)

LoopInit ==
    /\ pc = "called"
    /\ n = 0
    /\ r = Zero
    /\ m = 0
    /\ x = Unset
    /\ F = Unset
    /\ magnitude = Unset
    /\ x0 = Unset
    /\ err_pos = Zero
    /\ err_neg = Zero
    /\ err = Zero
    /\ call = NoCall
    /\ \E frame \in {random_frame(n_, DefaultRedundancy, None, None, e) :
                         n_ \in Dims, e \in Entropy},
          num_iter \in NumIters, seed \in Seeds \cup {None},
          entropy \in Entropy :
          \E magnitude_ \in ApiMagnitudes(frame) :
             inv = <<GsEnter(magnitude_, frame, num_iter, seed, entropy),
                     Idle>>
    /\ truth = [k \in Inv |-> Unset]
    /\ calls = <<>>

LoopNext ==
    \/ GsIterate(1)
    \/ GsReturn(1)

\* Python runs the invocation until it returns or raises.
SpecLoop == LoopInit /\ [][LoopNext]_vars /\ WF_vars(LoopNext)

-----------------------------------------------------------------------------
(* Paired runs: two invocations of gs_phaseless in flight at once, on the   *)
(* magnitudes of two signals that the measurements cannot tell apart; and   *)
(* an earlier and a later call of randunif or random_frame.                 *)

\* The frames random_frame returns with the default redundancy.
TwinFrames ==
    {random_frame(n_, DefaultRedundancy, None, None, e) :
        n_ \in Dims, e \in Entropy}

\* The entropy the two unseeded invocations may meet: the ends of Entropy.
TwinEntropy == {0, Cardinality(Entropy) - 1}

\* |F x| = |F x'| elementwise
SameMagnitudes(frame, x_, y_) ==
    VAbs[MatVec[frame, x_]] = VAbs[MatVec[frame, y_]]

\* Pairs of signals the measurements cannot tell apart, x' = -x among them.
TwinTruths(frame) ==
    {t \in Signals(Cols(frame)) \X
             (Signals(Cols(frame)) \cup
                {VNeg[x_] : x_ \in Signals(Cols(frame))}) :
        SameMagnitudes(frame, t[1], t[2])}

TwinInit ==
    /\ pc \in {"twin", "utils"}
    /\ n = 0
    /\ r = Zero
    /\ m = 0
    /\ x = Unset
    /\ F = Unset
    /\ magnitude = Unset
    /\ x0 = Unset
    /\ err_pos = Zero
    /\ err_neg = Zero
    /\ err = Zero
    /\ call = NoCall
    /\ inv = [k \in Inv |-> Idle]
    /\ truth = [k \in Inv |-> Unset]
    /\ calls = <<>>

\* magnitude = np.abs(F.dot(x)); gs_phaseless(magnitude, F, num_iter, seed),
\* for each of the two signals
TwinCall ==
    /\ pc = "twin"
    /\ \A k \in Inv : inv[k].pc = "idle"
    /\ \E frame \in TwinFrames, num_iter \in NumIters,
          seed \in Seeds \cup {None}, e \in TwinEntropy \X TwinEntropy :
          \E t \in TwinTruths(frame) :
             /\ inv' = <<GsEnter(Measured(frame, t[1]), frame, num_iter,
                                 seed, e[1]),
                         GsEnter(Measured(frame, t[2]), frame, num_iter,
                                 seed, e[2])>>
             /\ truth' = t
    /\ UNCHANGED <<pc, n, r, m, x, F, magnitude, x0, err_pos, err_neg, err,
                   call, calls>>

\* Ranges [a, b) randunif is called with: gs_phaseless's and the default.
Ranges == {<<RNeg[One], One>>, <<Zero, One>>}

\* randunif(n, a, b, seed)
CallRandunif ==
    /\ pc = "utils"
    /\ Len(calls) < 2
    /\ \E n_ \in Dims, ab \in Ranges, seed \in Seeds \cup {None},
          entropy \in Entropy :
          calls' = Append(calls,
                     [fn |-> "randunif", args |-> <<n_, ab[1], ab[2]>>,
                      seed |-> seed,
                      out |-> randunif(n_, ab[1], ab[2], seed, entropy)])
    /\ UNCHANGED <<pc, n, r, m, x, F, magnitude, x0, err_pos, err_neg, err,
                   call, inv, truth>>

\* random_frame(input_dimension, redundancy, frame_dimension, seed)
CallRandomFrame ==
    /\ pc = "utils"
    /\ Len(calls) < 2
    /\ \E n_ \in Dims, r_ \in Redundancies, fd \in FrameDims \cup {None},
          seed \in Seeds \cup {None}, entropy \in Entropy :
          /\ fd # None => r_ = DefaultRedundancy
          /\ FrameDimension(n_, r_, fd) >= 1
          /\ calls' = Append(calls,
                        [fn |-> "random_frame", args |-> <<n_, r_, fd>>,
                         seed |-> seed,
                         out |-> random_frame(n_, r_, fd, seed, entropy)])
    /\ UNCHANGED <<pc, n, r, m, x, F, magnitude, x0, err_pos, err_neg, err,
                   call, inv, truth>>

TwinNext ==
    \/ TwinCall
    \/ \E k \in Inv : GsIterate(k)
    \/ \E k \in Inv : GsReturn(k)
    \/ CallRandunif
    \/ CallRandomFrame

SpecTwin == TwinInit /\ [][TwinNext]_vars

-----------------------------------------------------------------------------
(* gs_phaseless called directly with a magnitude vector of any length,      *)
(* whether or not it is the number of rows of the frame.                    *)

\* The lengths of the magnitude vectors: up to one more than the rows of the
\* smallest frames, and the rows of the other frames.
MagLengths == {1, 2, 3, 4}

\* Magnitude vectors over MagGrid, of every length.
ShapeMagnitudes ==
    UNION {{f \o <<>> : f \in [1..k -> MagGrid]} : k \in MagLengths}

ShapeInit ==
    /\ pc = "shapes"
    /\ n = 0
    /\ r = Zero
    /\ m = 0
    /\ x = Unset
    /\ F = Unset
    /\ magnitude = Unset
    /\ x0 = Unset
    /\ err_pos = Zero
    /\ err_neg = Zero
    /\ err = Zero
    /\ call = NoCall
    /\ inv = [k \in Inv |-> Idle]
    /\ truth = [k \in Inv |-> Unset]
    /\ calls = <<>>

\* gs_phaseless(magnitude, frame, num_iter, seed): the call
ShapeCall ==
    /\ pc = "shapes"
    /\ inv[1].pc = "idle"
    /\ \E frame \in ApiFrames, num_iter \in NumIters,
          seed \in Seeds \cup {None}, entropy \in Entropy,
          magnitude_ \in ShapeMagnitudes :
          inv' = [inv EXCEPT ![1] = GsEnter(magnitude_, frame, num_iter,
                                            seed, entropy)]
    /\ UNCHANGED <<pc, n, r, m, x, F, magnitude, x0, err_pos, err_neg, err,
                   call>>
    /\ UNCHANGED <<truth, calls>>

ShapeNext ==
    \/ ShapeCall
    \/ GsIterate(1)
    \/ GsReturn(1)

SpecShape == ShapeInit /\ [][ShapeNext]_vars

-----------------------------------------------------------------------------
(* Parallel restarts: two invocations of gs_phaseless in flight at once on  *)
(* the same magnitudes b and frame F, each with its own seed.               *)

\* The vectors randunif(n, -1, 1, seed) returns for the explicit seeds.
SeededSignals(n_) ==
    {randunif(n_, RNeg[One], One, seed, 0) : seed \in Seeds}

ParInit ==
    /\ pc = "par"
    /\ n = 0
    /\ r = Zero
    /\ m = 0
    /\ x = Unset
    /\ F = Unset
    /\ magnitude = Unset
    /\ x0 = Unset
    /\ err_pos = Zero
    /\ err_neg = Zero
    /\ err = Zero
    /\ call = NoCall
    /\ inv = [k \in Inv |-> Idle]
    /\ truth = [k \in Inv |-> Unset]
    /\ calls = <<>>

\* gs_phaseless(magnitude, F, num_iter, seed=s1) and
\* gs_phaseless(magnitude, F, num_iter, seed=s2): the two calls
ParCall ==
    /\ pc = "par"
    /\ \A k \in Inv : inv[k].pc = "idle"
    /\ \E frame \in TwinFrames, num_iter \in NumIters,
          seed \in (Seeds \cup {None}) \X (Seeds \cup {None}),
          e \in TwinEntropy \X TwinEntropy :
          \E x_ \in SeededSignals(Cols(frame)) :
          \E magnitude_ \in {Measured(frame, x_)} :
             inv' = <<GsEnter(magnitude_, frame, num_iter, seed[1], e[1]),
                      GsEnter(magnitude_, frame, num_iter, seed[2], e[2])>>
    /\ UNCHANGED <<pc, n, r, m, x, F, magnitude, x0, err_pos, err_neg, err,
                   call, truth, calls>>

ParNext ==
    \/ ParCall
    \/ \E k \in Inv : GsIterate(k)
    \/ \E k \in Inv : GsReturn(k)

SpecPar == ParInit /\ [][ParNext]_vars

-----------------------------------------------------------------------------
(* The residual function err of gs_phaseless and the magnitude measurement  *)
(* of the main routine, applied to a real vector z and then to -z.          *)

\* A real vector as a complex one.
AsComplex(z) == CVec[z, [k \in 1..Len(z) |-> Zero] \o <<>>]

ErrInit ==
    /\ pc = "err"
    /\ n = 0
    /\ r = Zero
    /\ m = 0
    /\ x = Unset
    /\ F = Unset
    /\ magnitude = Unset
    /\ x0 = Unset
    /\ err_pos = Zero
    /\ err_neg = Zero
    /\ err = Zero
    /\ call = NoCall
    /\ inv = [k \in Inv |-> Idle]
    /\ truth = [k \in Inv |-> Unset]
    /\ calls = <<>>

\* np.abs(F.dot(z)) and err(z), for a frame F, magnitudes b and a vector z
ErrCall ==
    /\ pc = "err"
    /\ calls = <<>>
    /\ \E frame \in ApiFrames :
       \E b_ \in ApiMagnitudes(frame), z \in Signals(Cols(frame)) :
          calls' = <<[fn |-> "err", F |-> frame, magnitude |-> b_, z |-> z,
                      abs |-> Measured(frame, z),
                      out |-> gs_err(frame, b_, AsComplex(z))]>>
    /\ UNCHANGED <<pc, n, r, m, x, F, magnitude, x0, err_pos, err_neg, err,
                   call, inv, truth>>

\* np.abs(F.dot(-z)) and err(-z), for the frame, magnitudes and vector of
\* the call before
ErrCallNegated ==
    /\ pc = "err"
    /\ Len(calls) = 1
    /\ \E c \in {calls[1]} :
          calls' = Append(calls,
                     [c EXCEPT !.z = VNeg[c.z],
                               !.abs = Measured(c.F, VNeg[c.z]),
                               !.out = gs_err(c.F, c.magnitude,
                                              CNeg[AsComplex(c.z)])])
    /\ UNCHANGED <<pc, n, r, m, x, F, magnitude, x0, err_pos, err_neg, err,
                   call, inv, truth>>

ErrNext ==
    \/ ErrCall
    \/ ErrCallNegated

SpecErr == ErrInit /\ [][ErrNext]_vars

-----------------------------------------------------------------------------
(* Properties *)

\* The magnitude-fit residual || |F z| - b ||_2 of a real vector z, squared.
Residual(F_, b_, z) == NormSq[VSub[VAbs[MatVec[F_, z]], b_]]
\* An invocation that has completed at least one pass of the loop.
Iterated(c) == c.pc \in {"loop", "returned"} /\ c.i >= 1
\* u <= v
RLe(u, v) == ~RLt[v, u]

\* C1 (monotone residual): for a frame with orthonormal columns and b >= 0,
\* after every pass of the loop the residual of the new iterate x0 is not
\* larger than the residual of the iterate the pass started from, whose
\* analysis projection is the local X0 = F @ x0.
C1_MonotoneResidual ==
    \A k \in Inv :
        Iterated(inv[k]) =>
            RLe(Residual(inv[k].F, inv[k].b, inv[k].x0),
                NormSq[VSub[VAbs[inv[k].X0], inv[k].b]])

\* C1 witness: a second or later pass has strictly reduced the residual and
\* has not reached zero.
C1_Witness ==
    /\ Iterated(inv[1])
    /\ inv[1].i >= 2
    /\ RLt[Residual(inv[1].F, inv[1].b, inv[1].x0),
           NormSq[VSub[VAbs[inv[1].X0], inv[1].b]]]
    /\ RLt[Zero, Residual(inv[1].F, inv[1].b, inv[1].x0)]

\* C2 as claimed (sign selection): the next iterate is the candidate of y0
\* and -y0 with the strictly smaller residual, and y0 when the residuals
\* are equal.
C2_TiePositive ==
    \A k \in Inv :
        Iterated(inv[k]) =>
            LET c == inv[k]
                pos == gs_err(c.F, c.magnitude, c.y0)
                neg == gs_err(c.F, c.magnitude, CNeg[c.y0])
            IN  /\ RLt[pos, neg] => c.x0 = CRe[c.y0]
                /\ RLt[neg, pos] => c.x0 = CRe[CNeg[c.y0]]
                /\ pos = neg => c.x0 = CRe[c.y0]

\* C2 as amended: the next iterate is the candidate of y0 and -y0 with the
\* strictly smaller residual, and -y0 when the residuals are equal.
C2_TieNegative ==
    \A k \in Inv :
        Iterated(inv[k]) =>
            LET c == inv[k]
                pos == gs_err(c.F, c.magnitude, c.y0)
                neg == gs_err(c.F, c.magnitude, CNeg[c.y0])
            IN  /\ RLt[pos, neg] => c.x0 = CRe[c.y0]
                /\ RLt[neg, pos] => c.x0 = CRe[CNeg[c.y0]]
                /\ pos = neg => c.x0 = CRe[CNeg[c.y0]]

\* C2 witness: a pass whose two candidates differ and have equal residuals
\* has chosen -y0.
C2_Witness ==
    /\ Iterated(inv[1])
    /\ gs_err(inv[1].F, inv[1].magnitude, inv[1].y0)
         = gs_err(inv[1].F, inv[1].magnitude, CNeg[inv[1].y0])
    /\ CRe[inv[1].y0] # CRe[CNeg[inv[1].y0]]
    /\ inv[1].x0 = CRe[CNeg[inv[1].y0]]

\* C3 (termination): every invocation in its loop returns; when it has
\* returned it has made exactly num_iter passes, and what it returns is the
\* iterate of the last pass, the sign-selected real part of that pass's y0,
\* or the initial guess when num_iter = 0.
C3_ExactlyNumIter ==
    /\ (inv[1].pc = "loop") ~> (inv[1].pc \in {"returned", "raised"})
    /\ [](inv[1].pc = "returned" =>
            /\ inv[1].i = inv[1].num_iter
            /\ inv[1].ret = inv[1].x0
            /\ inv[1].num_iter = 0 => inv[1].ret = inv[1].guess
            /\ inv[1].num_iter >= 1 =>
                  inv[1].ret = Real(SelectSign(inv[1].F, inv[1].magnitude,
                                               inv[1].y0)))

\* C3 witness: an invocation with num_iter >= 2 has returned after num_iter
\* passes, the last of which still moved the iterate.
C3_Witness ==
    /\ inv[1].pc = "returned"
    /\ inv[1].num_iter >= 2
    /\ inv[1].i = inv[1].num_iter
    /\ inv[1].ret # inv[1].guess

\* Both invocations of a paired run have returned, and they were called
\* with the same frame, num_iter and seed on the magnitudes of two signals
\* with equal magnitude measurements.
TwinReturned ==
    /\ \A k \in Inv : inv[k].pc = "returned"
    /\ inv[1].frame = inv[2].frame
    /\ inv[1].num_iter = inv[2].num_iter
    /\ inv[1].seed = inv[2].seed
    /\ SameMagnitudes(inv[1].frame, truth[1], truth[2])

\* C4 as claimed (independence of the true signal): on two signals with
\* |F x| = |F x'|, gs_phaseless with the same F, num_iter and seed returns
\* the same estimate.
C4_SameEstimate ==
    TwinReturned => inv[1].ret = inv[2].ret

\* C4 as amended: it returns the same estimate when the seed is an explicit
\* one, or when the two runs drew the same initial guess.
C4_SameEstimateSeeded ==
    (TwinReturned /\ (inv[1].seed # None \/ inv[1].guess = inv[2].guess)) =>
        inv[1].ret = inv[2].ret

\* C4 witness: two seeded runs of two or more passes on the magnitudes of
\* x and of -x # x have returned the same estimate.
C4_Witness ==
    /\ TwinReturned
    /\ inv[1].seed # None
    /\ inv[1].num_iter >= 2
    /\ truth[2] = VNeg[truth[1]]
    /\ truth[2] # truth[1]
    /\ inv[1].ret = inv[2].ret
    /\ inv[1].ret # inv[1].guess

\* C5 (determinism): two invocations of gs_phaseless with the same
\* arguments and the same explicit seed return the same estimate, however
\* their passes interleave; an earlier and a later call of randunif, or of
\* random_frame, with the same arguments and the same explicit seed return
\* the same output.
C5_Deterministic ==
    /\ (/\ \A k \in Inv : inv[k].pc = "returned"
        /\ inv[1].magnitude = inv[2].magnitude
        /\ inv[1].frame = inv[2].frame
        /\ inv[1].num_iter = inv[2].num_iter
        /\ inv[1].seed = inv[2].seed
        /\ inv[1].seed # None) => inv[1].ret = inv[2].ret
    /\ (/\ Len(calls) = 2
        /\ calls[1].fn = calls[2].fn
        /\ calls[1].args = calls[2].args
        /\ calls[1].seed = calls[2].seed
        /\ calls[1].seed # None) => calls[1].out = calls[2].out

\* C5 witness: a seeded call of random_frame has been repeated after it
\* with the same arguments, and has returned the same frame.
C5_Witness ==
    /\ Len(calls) = 2
    /\ calls[1].fn = "random_frame"
    /\ calls[2] = calls[1]
    /\ calls[1].seed # None
    /\ Rows(calls[1].out) > 1

\* The frame dimension of the latest random_frame call, as the code and as
\* the claim compute it.
CallTruncated ==
    IF call.frame_dimension = None
      THEN PyInt(RMul[<<call.input_dimension, 1>>, call.redundancy])
      ELSE call.frame_dimension
CallRounded ==
    IF call.frame_dimension = None
      THEN PyRound(RMul[<<call.input_dimension, 1>>, call.redundancy])
      ELSE call.frame_dimension
\* random_frame has returned.
FrameReturned == call # NoCall

Gram(F_) ==
    [a \in 1..Cols(F_) |-> MatVec[Transpose[F_], Transpose[F_][a]]] \o <<>>

\* C7 (orthonormality): the frame random_frame returns satisfies
\* F^T F = I_n, n the input dimension.
C7_Orthonormal ==
    FrameReturned => Gram(F) = Identity(call.input_dimension)

\* The result evaluator has run on ground truth x and estimate inv[1].ret.
Evaluated == pc = "done"

\* C8 as claimed (sign insensitivity): the evaluator applied to (x, -e)
\* yields the corrected estimate and the reported error it yields on (x, e),
\* also when ||x - e|| = ||x + e||.
C8_SameCorrected ==
    Evaluated =>
        /\ Corrected(x, VNeg[inv[1].ret]) = x0
        /\ Reported(x, VNeg[inv[1].ret]) = err

\* C8 as amended: the reported errors are equal; the corrected estimates
\* are equal when ||x - e|| # ||x + e||, and are e and -e, each estimate
\* unchanged, when ||x - e|| = ||x + e||.
C8_SameUnlessTie ==
    Evaluated =>
        /\ Reported(x, VNeg[inv[1].ret]) = err
        /\ err_pos # err_neg => Corrected(x, VNeg[inv[1].ret]) = x0
        /\ err_pos = err_neg =>
              /\ x0 = inv[1].ret
              /\ Corrected(x, VNeg[inv[1].ret]) = VNeg[inv[1].ret]

\* C8 witness: the evaluator has run on an estimate e # -e at the same
\* distance from x as -e.
C8_Witness ==
    /\ Evaluated
    /\ err_pos = err_neg
    /\ inv[1].ret # VNeg[inv[1].ret]
    /\ Corrected(x, VNeg[inv[1].ret]) # x0

\* C9 (evaluator contract): err_pos = ||x - e||, err_neg = ||x + e||, the
\* corrected estimate is -e if err_neg < err_pos and e otherwise, the
\* reported error is the smaller of err_pos and err_neg, and it is the
\* distance from x to the corrected estimate.
C9_EvaluatorContract ==
    Evaluated =>
        /\ err_pos = NormSq[VSub[x, inv[1].ret]]
        /\ err_neg = NormSq[VAdd[x, inv[1].ret]]
        /\ x0 = IF RLt[err_neg, err_pos] THEN VNeg[inv[1].ret] ELSE inv[1].ret
        /\ err = IF RLt[err_neg, err_pos] THEN err_neg ELSE err_pos
        /\ err = NormSq[VSub[x, x0]]

\* C9 witness: the evaluator has flipped the sign of an estimate that is
\* nearer to -x than to x, and reports a positive error.
C9_Witness ==
    /\ Evaluated
    /\ RLt[err_neg, err_pos]
    /\ x0 = VNeg[inv[1].ret]
    /\ err = err_neg
    /\ RLt[Zero, err]

\* C10 (precondition failure): when the frame dimension m is smaller than
\* the input dimension n, random_frame returns no matrix.
C10_RejectsShortFrame ==
    (FrameReturned /\ CallTruncated < call.input_dimension) => F = Unset

\* An invocation of gs_phaseless whose magnitude vector has not the length
\* of the frame's rows.
Mismatched(c) == c.pc # "idle" /\ Len(c.magnitude) # Rows(c.frame)

\* C11 (precondition failure in retrieval): an invocation whose magnitude
\* vector differs in length from the rows of the frame is rejected before
\* any iteration begins: it computes no analysis projection, completes no
\* pass and returns no estimate, whatever num_iter and whatever the length.
C11_RejectsMismatch ==
    \A k \in Inv :
        Mismatched(inv[k]) =>
            /\ inv[k].pc # "returned"
            /\ inv[k].i = 0
            /\ inv[k].X0 = Unset

\* C12 (magnitude invariance to sign): for every real vector z, frame F and
\* magnitude vector b, |F z| = |F(-z)| elementwise and the residuals
\* || |F z| - b || and || |F(-z)| - b || are equal.
C12_SignInvariant ==
    Len(calls) = 2 =>
        /\ calls[2].z = VNeg[calls[1].z]
        /\ calls[2].abs = calls[1].abs
        /\ calls[2].out = calls[1].out

\* C12 witness: the measurement and the residual have been taken of z and
\* of -z, where F z # F(-z) and the residual is positive.
C12_Witness ==
    /\ Len(calls) = 2
    /\ MatVec[calls[1].F, calls[1].z] # MatVec[calls[2].F, calls[2].z]
    /\ RLt[Zero, calls[1].out]
    /\ calls[2].out = calls[1].out

\* The iterate of gs_phaseless after i passes from the initial guess, when
\* nothing else runs.
RECURSIVE Alone(_, _, _, _)
Alone(F_, b_, guess, i) ==
    IF i = 0 THEN guess
    ELSE LET X0_ == Analysis(F_, Alone(F_, b_, guess, i - 1))
             Y0_ == MagnitudeConstraint(b_, X0_)
             y0_ == Synthesis(F_, Y0_)
         IN  Real(SelectSign(F_, b_, y0_))

\* C13 (independent invocations do not interfere): with two invocations on
\* the same b and F in flight, their passes interleaved in any order, the
\* iterate of each after i passes is the iterate it has after i passes when
\* run alone from its own initial guess, and each returns the estimate it
\* returns when run alone.
C13_NoInterference ==
    \A k \in Inv :
        inv[k].pc \in {"loop", "returned"} =>
            /\ inv[k].x0
                 = Alone(inv[k].F, inv[k].magnitude, inv[k].guess, inv[k].i)
            /\ inv[k].pc = "returned" =>
                  inv[k].ret = Alone(inv[k].F, inv[k].magnitude,
                                     inv[k].guess, inv[k].num_iter)

\* C13 witness: two invocations with different explicit seeds were started
\* together; the first has returned, after two or more passes, what it
\* returns alone, while the second, on another iterate, is between its
\* first and its last pass.
C13_Witness ==
    /\ inv[1].pc = "returned"
    /\ inv[1].num_iter >= 2
    /\ inv[1].ret = Alone(inv[1].F, inv[1].magnitude, inv[1].guess,
                          inv[1].num_iter)
    /\ inv[1].ret # inv[1].guess
    /\ inv[2].pc = "loop"
    /\ inv[2].i >= 1
    /\ inv[2].i < inv[2].num_iter
    /\ inv[1].seed # None
    /\ inv[2].seed # None
    /\ inv[1].seed # inv[2].seed
    /\ inv[2].x0 # inv[1].ret
    /\ inv[2].x0 # VNeg[inv[1].ret]

\* C14 (inputs are never mutated): once created, the true signal x, the
\* frame F and the magnitude vector b keep their values in every step of
\* the experiment; gs_phaseless works on exactly the magnitudes and the
\* frame the main routine holds, which stay the measurements |F x| of x;
\* only the iterate and the estimate change.
C14_InputsImmutable ==
    /\ [][/\ x # Unset => x' = x
          /\ F # Unset => F' = F
          /\ magnitude # Unset => magnitude' = magnitude
          /\ inv[1].pc # "idle" =>
                /\ inv'[1].magnitude = inv[1].magnitude
                /\ inv'[1].frame = inv[1].frame
                /\ inv'[1].b = inv[1].b
                /\ inv'[1].F = inv[1].F]_vars
    /\ [](inv[1].pc # "idle" =>
            /\ inv[1].magnitude = magnitude
            /\ inv[1].b = magnitude
            /\ inv[1].frame = F
            /\ inv[1].F = F)
    /\ [](pc \in {"retrieve", "retrieving", "done"} =>
            magnitude = Measured(F, x))

\* C14 witness: the experiment has ended after two or more passes that
\* moved the iterate and a sign fix that flipped the estimate, with x, F
\* and the magnitudes as they were created.
C14_Witness ==
    /\ pc = "done"
    /\ inv[1].num_iter >= 2
    /\ inv[1].ret # inv[1].guess
    /\ x0 = VNeg[inv[1].ret]
    /\ x0 # inv[1].ret
    /\ magnitude = Measured(F, x)
    /\ inv[1].b = magnitude
    /\ inv[1].F = F

\* |z|^2 of a complex number z = <<re, im>>.
ModulusSq(z) == RAdd[RMul[z[1], z[1]], RMul[z[2], z[2]]]

\* C16 (magnitude-domain projection): in every pass, for the real iterate
\* the pass started from, X = F x_i and b >= 0, each component of Y has the
\* measured modulus, |Y_k| = b_k, and the estimated phase of X_k: Y_k = b_k
\* where X_k > 0, Y_k = -b_k where X_k < 0, and Y_k = +b_k where X_k = 0.
C16_MagnitudeProjection ==
    \A k \in Inv :
        Iterated(inv[k]) =>
            /\ Len(inv[k].Y0) = Len(inv[k].b)
            /\ \A j \in 1..Len(inv[k].Y0) :
                  LET Xj == inv[k].X0[j]
                      Yj == inv[k].Y0[j]
                      bj == inv[k].b[j]
                  IN  /\ ModulusSq(Yj) = RMul[bj, bj]
                      /\ RLt[Zero, Xj] => Yj = <<bj, Zero>>
                      /\ RLt[Xj, Zero] => Yj = <<RNeg[bj], Zero>>
                      /\ Xj = Zero => Yj = <<bj, Zero>>

\* C16 witness: a pass whose X has a positive, a negative and a zero
\* component, each with a positive measured modulus.
C16_Witness ==
    /\ Iterated(inv[1])
    /\ \E j \in 1..Len(inv[1].X0) :
          /\ RLt[Zero, inv[1].X0[j]]
          /\ inv[1].Y0[j] = <<inv[1].b[j], Zero>>
          /\ RLt[Zero, inv[1].b[j]]
    /\ \E j \in 1..Len(inv[1].X0) :
          /\ RLt[inv[1].X0[j], Zero]
          /\ inv[1].Y0[j] = <<RNeg[inv[1].b[j]], Zero>>
          /\ RLt[Zero, inv[1].b[j]]
    /\ \E j \in 1..Len(inv[1].X0) :
          /\ inv[1].X0[j] = Zero
          /\ inv[1].Y0[j] = <<inv[1].b[j], Zero>>
          /\ RLt[Zero, inv[1].b[j]]

\* b with the signs of X: b_k where X_k >= 0, -b_k where X_k < 0.
SignedMagnitudes(b_, X) ==
    [k \in 1..Len(X) |-> IF RLt[X[k], Zero] THEN RNeg[b_[k]] ELSE b_[k]]
        \o <<>>
\* F^T (b with the signs of F z)
BackProjected(F_, b_, z) ==
    MatVec[Transpose[F_], SignedMagnitudes(b_, MatVec[F_, z])]
\* z is stationary up to sign: from z and from -z the back-projection is z
\* or -z, so every later iterate is z or -z.
Stationary(F_, b_, z) ==
    /\ BackProjected(F_, b_, z) \in {z, VNeg[z]}
    /\ BackProjected(F_, b_, VNeg[z]) \in {z, VNeg[z]}
\* A local-minimum trap: stationary up to sign, with a positive residual.
Trap(F_, b_, z) ==
    /\ Stationary(F_, b_, z)
    /\ RLt[Zero, Residual(F_, b_, z)]

\* C17 (the local-minimum trap is reachable and absorbing): a pass leaves
\* the iterate unchanged up to sign exactly when the back-projection of the
\* signed magnitudes is the iterate or its negative; from an iterate that
\* is stationary up to sign with a positive residual, every pass yields
\* such an iterate again; and an experiment that ends in one reports a
\* positive error, whatever the number of passes.
C17_TrapAbsorbing ==
    /\ [][(/\ pc = "retrieving"
           /\ inv[1].pc = "loop"
           /\ inv'[1].i = inv[1].i + 1) =>
             /\ (inv'[1].x0 \in {inv[1].x0, VNeg[inv[1].x0]})
                  <=> (BackProjected(F, magnitude, inv[1].x0)
                         \in {inv[1].x0, VNeg[inv[1].x0]})
             /\ Trap(F, magnitude, inv[1].x0) =>
                   /\ inv'[1].x0 \in {inv[1].x0, VNeg[inv[1].x0]}
                   /\ Trap(F, magnitude, inv'[1].x0)]_vars
    /\ [](pc = "done" /\ Trap(F, magnitude, inv[1].ret) => RLt[Zero, err])

\* C17 witness: for a frame with orthonormal columns and b = |F x|, an
\* invocation of three or more passes has left its initial guess, reached
\* a trap and returned it, and the reported error is positive.
C17_Witness ==
    /\ pc = "done"
    /\ Gram(F) = Identity(Len(x))
    /\ magnitude = Measured(F, x)
    /\ inv[1].num_iter >= 3
    /\ inv[1].guess \notin {inv[1].ret, VNeg[inv[1].ret]}
    /\ Trap(F, magnitude, inv[1].ret)
    /\ inv[1].ret \notin {x, VNeg[x]}
    /\ RLt[Zero, err]

\* C18 (the comparison never decides): in every pass the residuals of the
\* candidates y0 and -y0 are equal, so err(y0) < err(-y0) is false and the
\* next iterate is Re(-y0) = -Re(F^T Y0).
C18_AlwaysNegated ==
    \A k \in Inv :
        Iterated(inv[k]) =>
            LET c == inv[k]
            IN  /\ gs_err(c.F, c.magnitude, c.y0)
                     = gs_err(c.F, c.magnitude, CNeg[c.y0])
                /\ ~RLt[gs_err(c.F, c.magnitude, c.y0),
                        gs_err(c.F, c.magnitude, CNeg[c.y0])]
                /\ c.x0 = Real(CNeg[c.y0])
                /\ c.x0 = VNeg[MatVec[Transpose[c.F], CRe[c.Y0]]]

\* C18 witness: a second or later pass with a candidate y0 # -y0 of
\* positive residual has taken -y0.
C18_Witness ==
    /\ Iterated(inv[1])
    /\ inv[1].i >= 2
    /\ CRe[inv[1].y0] # VNeg[CRe[inv[1].y0]]
    /\ RLt[Zero, gs_err(inv[1].F, inv[1].magnitude, inv[1].y0)]
    /\ inv[1].x0 = VNeg[CRe[inv[1].y0]]
    /\ inv[1].x0 # CRe[inv[1].y0]

\* The sign of a rational: -1, 0 or 1.
Sgn(v) == IF RLt[v, Zero] THEN -1 ELSE IF RLt[Zero, v] THEN 1 ELSE 0
\* X has the sign of T on every component where T is non-zero.
SignsAgree(X, T) ==
    \A k \in 1..Len(T) : T[k] # Zero => Sgn(X[k]) = Sgn(T[k])
\* The sign pattern of F z is that of F x or that of -F x wherever F x is
\* non-zero.
Aligned(F_, z, x_) ==
    \/ SignsAgree(MatVec[F_, z], MatVec[F_, x_])
    \/ SignsAgree(MatVec[F_, z], MatVec[F_, VNeg[x_]])

\* C19 (the true signal is absorbing up to sign): for a frame with
\* orthonormal columns and b = |F x|, a pass that starts from an iterate
\* whose sign pattern under F is that of x or of -x yields x or -x; a pass
\* that starts from x or -x yields the negated iterate, so the sign of the
\* returned estimate alternates with the number of passes left; and an
\* experiment that returns x or -x reports the error 0 and the corrected
\* estimate x.
C19_TruthAbsorbing ==
    /\ [][(/\ pc = "retrieving"
           /\ inv[1].pc = "loop"
           /\ inv'[1].i = inv[1].i + 1
           /\ Aligned(F, inv[1].x0, x)) =>
             /\ inv'[1].x0 \in {x, VNeg[x]}
             /\ inv[1].x0 \in {x, VNeg[x]} =>
                   inv'[1].x0 = VNeg[inv[1].x0]]_vars
    /\ [](pc = "done" /\ inv[1].ret \in {x, VNeg[x]} =>
            /\ err = Zero
            /\ x0 = x)

\* C19 witness: an invocation of two or more passes started from a guess
\* that is neither x nor -x, for x # 0, has returned -x; the reported
\* error is 0 and the sign fix has restored x.
C19_Witness ==
    /\ pc = "done"
    /\ Gram(F) = Identity(Len(x))
    /\ inv[1].num_iter >= 2
    /\ inv[1].guess \notin {x, VNeg[x]}
    /\ x # VNeg[x]
    /\ inv[1].ret = VNeg[x]
    /\ err = Zero
    /\ x0 = x

=============================================================================
